---------------------------- MODULE Spec2Model ----------------------------
(***************************************************************************)
(* A model of pagerank.py: transition_model, sample_pagerank and           *)
(* iterate_pagerank over the corpus that crawl builds.                     *)
(*                                                                         *)
(* Pages are numbered 1..k in the order of corpus.keys(); a corpus is a    *)
(* function from its pages to the set of pages each links to.  Python's    *)
(* floats are modelled as exact rationals [n |-> numerator,                *)
(* d |-> denominator], always in lowest terms with d > 0, so that "sums    *)
(* to 1" and "equals 1/k" are exact statements.                            *)
(***************************************************************************)
EXTENDS Integers, Sequences, FiniteSets, TLC

VARIABLES
    pc,              \* position of the function being run
    corpus,          \* the corpus argument
    damping_factor,  \* the damping_factor argument
    page,            \* transition_model: the page argument;
                     \* iterate_pagerank: the page the for loop of line 120 takes next
    probs,           \* the dictionary transition_model returns
    n,               \* sample_pagerank: the n argument
    i,               \* sample_pagerank: the loop variable of line 87
    current,         \* sample_pagerank: current
    sample,          \* sample_pagerank: the list sample
    count,           \* sample_pagerank: the dictionary count it returns
    rank,            \* iterate_pagerank: rank
    prev_rank,       \* iterate_pagerank: prev_rank
    check,           \* iterate_pagerank: check
    loop             \* iterate_pagerank: loop

vars == <<pc, corpus, damping_factor, page, probs, n, i, current, sample,
          count, rank, prev_rank, check, loop>>

\* Largest number of pages of a corpus.
MaxPages == 3

\* Largest number of pages of a corpus handed to sample_pagerank, whose
\* walks multiply with every page and every draw.
MaxWalkPages == 2

\* Largest n handed to sample_pagerank.
MaxN == 3

(***************************************************************************)
(* Rational arithmetic, standing for the float operations of the code.     *)
(***************************************************************************)
\* F(v), with v evaluated once however often F reads its argument
Let(v, F(_)) ==
    CHOOSE r \in {F(x) : x \in {v}} : TRUE

RECURSIVE GCD(_, _)
GCD(a, b) ==
    IF b = 0 THEN a ELSE Let(a % b, LAMBDA r : GCD(b, r))

Abs(x) ==
    IF x < 0 THEN -x ELSE x

\* num / den in lowest terms
Rat(num, den) ==
    Let(GCD(Abs(num), den), LAMBDA g : [n |-> num \div g, d |-> den \div g])

Zero == [n |-> 0, d |-> 1]

One == [n |-> 1, d |-> 1]

\* x.d * y.d / gcd(x.d, y.d)
CommonDen(x, y) ==
    (x.d \div GCD(x.d, y.d)) * y.d

RAdd(a, b) ==
    Let(a, LAMBDA x : Let(b, LAMBDA y : Let(CommonDen(x, y), LAMBDA l :
        Let(x.n * (l \div x.d) + y.n * (l \div y.d), LAMBDA num :
            Rat(num, l)))))

RNeg(a) ==
    Let(a, LAMBDA x : [n |-> -x.n, d |-> x.d])

RSub(a, b) ==
    RAdd(a, RNeg(b))

RAbs(a) ==
    Let(a, LAMBDA x : [n |-> Abs(x.n), d |-> x.d])

RMul(a, b) ==
    Let(a, LAMBDA x : Let(b, LAMBDA y :
        Let(GCD(Abs(x.n), y.d), LAMBDA g1 : Let(GCD(Abs(y.n), x.d), LAMBDA g2 :
            [n |-> (x.n \div g1) * (y.n \div g2),
             d |-> (x.d \div g2) * (y.d \div g1)]))))

\* a / m for an integer m > 0 (a len(...) of the code)
RDivInt(a, m) ==
    Let(a, LAMBDA x : Let(m, LAMBDA y : Let(GCD(Abs(x.n), y), LAMBDA g :
        [n |-> x.n \div g, d |-> x.d * (y \div g)])))

\* a < b for a >= 0 and b = 1/b.d, without forming a.n * b.d
RLess(a, b) ==
    \E x \in {a} : x.n <= (x.d - 1) \div b.d

RPositive(a) ==
    a.n > 0

RECURSIVE RSumTo(_, _)
\* f[1] + ... + f[j]
RSumTo(f, j) ==
    IF j = 0 THEN Zero ELSE RAdd(RSumTo(f, j - 1), f[j])

\* sum(f.values())
RSum(f) ==
    RSumTo(f, Len(f))

(***************************************************************************)
(* Inputs.                                                                 *)
(***************************************************************************)
\* DAMPING = 0.85
DAMPING == [n |-> 17, d |-> 20]

\* the tolerance 0.001 of the convergence test
Tolerance == [n |-> 1, d |-> 1000]

\* damping factors in (0, 1] handed to transition_model and sample_pagerank
Dampings == {[n |-> 1, d |-> 2], DAMPING, One}

\* damping factors in (0, 1) handed to iterate_pagerank; these keep every
\* rank of every round within TLC's integers
IterDampings == {[n |-> 1, d |-> 4], [n |-> 1, d |-> 2]}

\* What crawl returns: every page maps to a set of other pages of the corpus.
Corpora ==
    UNION {{c \in [1..k -> SUBSET (1..k)] : \A p \in 1..k : p \notin c[p]} :
           k \in 0..MaxPages}

\* len(corpus)
NumPages(c) ==
    Cardinality(DOMAIN c)

(***************************************************************************)
(* transition_model                                                        *)
(***************************************************************************)
\* the value the loop body stores under `link`, dividing the damping share
\* by the size of the corpus instead of the number of links
ProbOfByCorpus(c, internal, link, d) ==
    IF link \in internal
    THEN RAdd(RDivInt(RSub(One, d), NumPages(c)), RDivInt(d, NumPages(c)))
    ELSE RDivInt(RSub(One, d), NumPages(c))

\* the value the loop body stores under `link`
ProbOf(c, internal, link, d) ==
    IF link \in internal
    THEN RAdd(RDivInt(RSub(One, d), NumPages(c)), RDivInt(d, Cardinality(internal)))
    ELSE RDivInt(RSub(One, d), NumPages(c))

transition_model(c, p, d) ==
    LET internal == c[p]
    IN  [link \in DOMAIN c |-> ProbOf(c, internal, link, d)]

InitTM ==
    /\ pc = "start"
    /\ corpus \in Corpora \ {<<>>}
    /\ page \in DOMAIN corpus
    /\ damping_factor \in Dampings
    /\ probs = <<>>
    /\ n = 0
    /\ i = 0
    /\ current = 0
    /\ sample = <<>>
    /\ count = <<>>
    /\ rank = <<>>
    /\ prev_rank = <<>>
    /\ check = <<>>
    /\ loop = FALSE

Transition ==
    /\ pc = "start"
    /\ probs' = transition_model(corpus, page, damping_factor)
    /\ pc' = "done"
    /\ UNCHANGED <<corpus, damping_factor, page, n, i, current, sample, count,
                   rank, prev_rank, check, loop>>

NextTM ==
    Transition

SpecTM ==
    InitTM /\ [][NextTM]_vars

(***************************************************************************)
(* Properties of transition_model (checked under SpecTM).                  *)
(***************************************************************************)
\* r = num / den, stated on integers
RatIs(r, num, den) ==
    r.n * den = num * r.d

\* outdegree of the page argument
OutDegree ==
    Cardinality(corpus[page])

\* C1: for a page with no outgoing links, transition_model gives every page
\* of the corpus, the page itself included, probability exactly 1/k.
C1_DanglingUniform ==
    (pc = "done" /\ OutDegree = 0) =>
        \A p \in DOMAIN corpus : RatIs(probs[p], 1, NumPages(corpus))

\* C2: the values of the mapping transition_model returns sum to 1, whatever
\* the outdegree of the page (zero included).
C2_SumsToOne ==
    pc = "done" => RSum(probs) = One

\* C3: for a page with outdegree m > 0 in a corpus of k pages, the mapping
\* has exactly the pages of the corpus as keys; a link target has value
\* (1-damping)/k + damping/m and every other page has value (1-damping)/k.
C3_LinkedPageProbs ==
    (pc = "done" /\ OutDegree > 0) =>
        LET k  == NumPages(corpus)
            m  == OutDegree
            dn == damping_factor.n
            dd == damping_factor.d
        IN  /\ DOMAIN probs = DOMAIN corpus
            /\ \A p \in DOMAIN corpus :
                 IF p \in corpus[page]
                 THEN RatIs(probs[p], (dd - dn) * m + dn * k, dd * k * m)
                 ELSE RatIs(probs[p], dd - dn, dd * k)

\* transition_model has returned for a page that links to some but not all
\* of the other pages, under a damping factor below 1
C3_Witness ==
    /\ pc = "done"
    /\ NumPages(corpus) = 3
    /\ OutDegree = 1
    /\ damping_factor = DAMPING
    /\ \E p \in DOMAIN corpus : p \in corpus[page] /\ probs[p] = [n |-> 9, d |-> 10]
    /\ \E p \in DOMAIN corpus : p \notin corpus[page] /\ probs[p] = [n |-> 1, d |-> 20]


(***************************************************************************)
(* sample_pagerank                                                         *)
(***************************************************************************)
RECURSIVE CountIn(_, _, _)
\* the number of occurrences of p among the first j entries of seq
CountIn(seq, p, j) ==
    IF j = 0 THEN 0
    ELSE CountIn(seq, p, j - 1) + (IF seq[j] = p THEN 1 ELSE 0)

\* sample.count(p) / (len(sample) - 1): the visits over n, not over n + 1
FrequencyOverN(seq, p) ==
    Rat(CountIn(seq, p, Len(seq)), Len(seq) - 1)

\* sample.count(p) / len(sample)
Frequency(seq, p) ==
    Rat(CountIn(seq, p, Len(seq)), Len(seq))

\* random.choices(list(probs.keys()), weights=list(probs.values()), k=1)
\* can return every key of positive weight.  When the weights sum to zero
\* it raises ValueError from Python 3.9 on, and returns the last key before.
TotalWeightZero(weights) ==
    ~RPositive(RSum(weights))

Choices(weights) ==
    IF TotalWeightZero(weights)
    THEN {Len(weights)}
    ELSE {p \in DOMAIN weights : RPositive(weights[p])}

InitSample ==
    /\ pc = "start"
    /\ corpus \in {c \in Corpora : NumPages(c) <= MaxWalkPages}
    /\ damping_factor \in Dampings
    /\ n \in 1..MaxN
    /\ page = 0
    /\ probs = <<>>
    /\ i = 0
    /\ current = 0
    /\ sample = <<>>
    /\ count = <<>>
    /\ rank = <<>>
    /\ prev_rank = <<>>
    /\ check = <<>>
    /\ loop = FALSE

\* current = random.choice(list(corpus.keys())); sample = [current]
SampleStart ==
    /\ pc = "start"
    /\ corpus # <<>>
    /\ \E first \in DOMAIN corpus :
         /\ current' = first
         /\ sample' = <<first>>
    /\ pc' = "loop"
    /\ UNCHANGED <<corpus, damping_factor, page, probs, n, i, count, rank,
                   prev_rank, check, loop>>

\* random.choice of an empty list raises IndexError
SampleStartEmpty ==
    /\ pc = "start"
    /\ corpus = <<>>
    /\ pc' = "error"
    /\ UNCHANGED <<corpus, damping_factor, page, probs, n, i, current, sample,
                   count, rank, prev_rank, check, loop>>

\* one pass of the for loop: the transition from sample[i] and the draw
SampleStep ==
    /\ pc = "loop"
    /\ i < n
    /\ LET weights == transition_model(corpus, sample[i + 1], damping_factor)
       IN  /\ probs' = weights
           /\ \E next \in Choices(weights) :
                /\ current' = next
                /\ sample' = Append(sample, next)
    /\ i' = i + 1
    /\ UNCHANGED <<pc, corpus, damping_factor, page, n, count, rank, prev_rank,
                   check, loop>>

\* the draw raises ValueError: the weights sum to zero
SampleStepFails ==
    /\ pc = "loop"
    /\ i < n
    /\ LET weights == transition_model(corpus, sample[i + 1], damping_factor)
       IN  /\ TotalWeightZero(weights)
           /\ probs' = weights
    /\ current' = sample[i + 1]
    /\ pc' = "error"
    /\ UNCHANGED <<corpus, damping_factor, page, n, i, sample, count, rank,
                   prev_rank, check, loop>>

\* the loop is over: count[page] = sample.count(page)/len(sample); return count
SampleCount ==
    /\ pc = "loop"
    /\ i = n
    /\ count' = [p \in DOMAIN corpus |-> Frequency(sample, p)]
    /\ pc' = "done"
    /\ UNCHANGED <<corpus, damping_factor, page, probs, n, i, current, sample,
                   rank, prev_rank, check, loop>>

NextSample ==
    \/ SampleStart
    \/ SampleStartEmpty
    \/ SampleStep
    \/ SampleStepFails
    \/ SampleCount

SpecSample ==
    InitSample /\ [][NextSample]_vars

(***************************************************************************)
(* Properties of sample_pagerank (checked under SpecSample).               *)
(***************************************************************************)
\* the number of entries of sample that are page p
Visits(p) ==
    Cardinality({j \in 1..Len(sample) : sample[j] = p})

RECURSIVE SumVisits(_)
SumVisits(S) ==
    IF S = {} THEN 0
    ELSE LET p == CHOOSE q \in S : TRUE
         IN  Visits(p) + SumVisits(S \ {p})

\* C8: on a non-empty corpus the visit sequence holds the starting page and
\* one page of the corpus per draw, n+1 pages when the walk is over; the
\* result has every page as a key, with value (its visits)/(n+1); the
\* visits sum to n+1 and the frequencies to 1.
C8_SampleFrequencies ==
    corpus # <<>> =>
        /\ pc = "loop" =>
             /\ Len(sample) = i + 1
             /\ \A j \in 1..Len(sample) : sample[j] \in DOMAIN corpus
        /\ pc = "done" =>
             /\ Len(sample) = n + 1
             /\ \A j \in 1..Len(sample) : sample[j] \in DOMAIN corpus
             /\ DOMAIN count = DOMAIN corpus
             /\ \A p \in DOMAIN corpus : RatIs(count[p], Visits(p), n + 1)
             /\ SumVisits(DOMAIN corpus) = n + 1
             /\ RSum(count) = One

\* a walk of three draws over two pages is over: one page was visited three
\* times and the other once
C8_Witness ==
    /\ pc = "done"
    /\ n = 3
    /\ NumPages(corpus) = 2
    /\ \E p, q \in DOMAIN corpus :
         /\ Visits(p) = 3
         /\ count[p] = [n |-> 3, d |-> 4]
         /\ count[q] = [n |-> 1, d |-> 4]

\* C9: on a non-empty corpus with a page that has no outgoing links,
\* sample_pagerank never fails, whatever the damping factor in (0,1].
C9_NoFailureOnDangling ==
    (corpus # <<>> /\ \E p \in DOMAIN corpus : corpus[p] = {}) => pc # "error"


(***************************************************************************)
(* iterate_pagerank                                                        *)
(***************************************************************************)
\* the share of prev_page's rank that reaches page p, with the test for a
\* page without links left out
ShareLinkedOnly(c, ranks, prev_page, p) ==
    IF p \in c[prev_page]
    THEN RDivInt(ranks[prev_page], Cardinality(c[prev_page]))
    ELSE Zero

\* what one pass of the inner loop adds to prob2: a page without links
\* counts as linking to every page of the corpus
Share(c, ranks, prev_page, p) ==
    LET page_links == IF Cardinality(c[prev_page]) = 0
                      THEN DOMAIN c
                      ELSE c[prev_page]
    IN  IF p \in page_links
        THEN RDivInt(ranks[prev_page], Cardinality(page_links))
        ELSE Zero

RECURSIVE Prob2(_, _, _, _)
\* prob2 after the inner loop has taken the first j items of corpus
Prob2(c, ranks, p, j) ==
    IF j = 0 THEN Zero
    ELSE RAdd(Prob2(c, ranks, p, j - 1), Share(c, ranks, j, p))

\* page_rank = prob2*damping_factor + prob1
page_rank(c, ranks, p, d) ==
    LET prob1 == RDivInt(RSub(One, d), NumPages(c))
        prob2 == Prob2(c, ranks, p, NumPages(c))
    IN  RAdd(RMul(prob2, d), prob1)

\* the ranks read in a round, were they those being written in it
SourceRanksInPlace(previous, updated) ==
    updated

\* the ranks the inner loop reads: prev_rank[prev_page], not rank[prev_page]
SourceRanks(previous, updated) ==
    previous

\* |prev_rank[p] - rank[p]| < 0.001
WithinTolerance(previous, updated, p) ==
    RLess(RAbs(RSub(previous[p], updated[p])), Tolerance)

\* check after the loop over prev_rank.keys(), were a flag once set never
\* cleared
CheckedSticky(chk, previous, updated) ==
    [p \in DOMAIN chk |->
        IF p \in DOMAIN previous /\ ~WithinTolerance(previous, updated, p)
        THEN chk[p]
        ELSE TRUE]

\* check after the loop over prev_rank.keys(): every flag is set or cleared
Checked(chk, previous, updated) ==
    [p \in DOMAIN chk |->
        IF p \in DOMAIN previous
        THEN WithinTolerance(previous, updated, p)
        ELSE chk[p]]

\* the test of line 142 negated
NotConverged(chk) ==
    ~\A p \in DOMAIN chk : chk[p]

\* all(check.values())
Converged(chk) ==
    \A p \in DOMAIN chk : chk[p]

InitIter ==
    /\ pc = "start"
    /\ corpus \in Corpora
    /\ damping_factor \in IterDampings
    /\ page = 0
    /\ probs = <<>>
    /\ n = 0
    /\ i = 0
    /\ current = 0
    /\ sample = <<>>
    /\ count = <<>>
    /\ rank = <<>>
    /\ prev_rank = <<>>
    /\ check = <<>>
    /\ loop = FALSE

\* every rank 1/N, prev_rank a copy, every flag False, loop = True
IterInit ==
    /\ pc = "start"
    /\ rank' = [p \in DOMAIN corpus |-> RDivInt(One, NumPages(corpus))]
    /\ prev_rank' = rank'
    /\ check' = [p \in DOMAIN corpus |-> FALSE]
    /\ loop' = TRUE
    /\ pc' = "while"
    /\ UNCHANGED <<corpus, damping_factor, page, probs, n, i, current, sample,
                   count>>

\* while loop: a new round starts with the first page of the corpus
IterRound ==
    /\ pc = "while"
    /\ loop
    /\ page' = 1
    /\ pc' = "for"
    /\ UNCHANGED <<corpus, damping_factor, probs, n, i, current, sample, count,
                   rank, prev_rank, check, loop>>

\* one pass of the for loop of line 120: rank[page] = page_rank
UpdatePage ==
    /\ pc = "for"
    /\ page <= NumPages(corpus)
    /\ rank' = [rank EXCEPT ![page] =
                  page_rank(corpus, SourceRanks(prev_rank, rank), page,
                            damping_factor)]
    /\ page' = page + 1
    /\ UNCHANGED <<pc, corpus, damping_factor, probs, n, i, current, sample,
                   count, prev_rank, check, loop>>

\* the round is over: the flags, the test of line 142, prev_rank = rank.copy()
CheckRound ==
    /\ pc = "for"
    /\ page > NumPages(corpus)
    /\ check' = Checked(check, prev_rank, rank)
    /\ loop' = IF Converged(check') THEN FALSE ELSE loop
    /\ prev_rank' = rank
    /\ pc' = "while"
    /\ UNCHANGED <<corpus, damping_factor, page, probs, n, i, current, sample,
                   count, rank>>

\* while loop: loop is False, return rank
IterReturn ==
    /\ pc = "while"
    /\ ~loop
    /\ pc' = "done"
    /\ UNCHANGED <<corpus, damping_factor, page, probs, n, i, current, sample,
                   count, rank, prev_rank, check, loop>>

NextIter ==
    \/ IterInit
    \/ IterRound
    \/ UpdatePage
    \/ CheckRound
    \/ IterReturn

SpecIter ==
    InitIter /\ [][NextIter]_vars

\* the interpreter runs the function to its end: no step waits for anything
SpecIterFair ==
    InitIter /\ [][NextIter]_vars /\ WF_vars(NextIter)


(***************************************************************************)
(* Properties of iterate_pagerank (checked under SpecIter, termination     *)
(* under SpecIterFair).                                                    *)
(***************************************************************************)
RECURSIVE RSumOver(_, _)
\* the sum of f[s] over the pages s of S
RSumOver(S, f) ==
    IF S = {} THEN Zero
    ELSE LET s == CHOOSE x \in S : TRUE
         IN  RAdd(f[s], RSumOver(S \ {s}, f))

\* |outlinks(s)| when non-empty, else the number of pages
EffectiveOutDegree(s) ==
    IF corpus[s] = {} THEN NumPages(corpus) ELSE Cardinality(corpus[s])

\* (1-damping)/k + damping * the sum, over the sources s that link to t or
\* link nowhere, of previous[s]/effective_outdegree(s)
UpdateRule(previous, t) ==
    LET sources == {s \in DOMAIN corpus : t \in corpus[s] \/ corpus[s] = {}}
        shares  == [s \in DOMAIN corpus |->
                      RDivInt(previous[s], EffectiveOutDegree(s))]
    IN  RAdd(RDivInt(RSub(One, damping_factor), NumPages(corpus)),
             RMul(damping_factor, RSumOver(sources, shares)))

\* C4: the first round reads the vector of 1/k; within a round every page
\* already taken holds the update rule applied to the previous round's
\* vector and every other page still holds its previous rank; the previous
\* vector is left alone during the round and replaced by the complete new
\* vector at its end.
C4_SynchronousUpdate ==
    /\ [](pc = "for" =>
            \A t \in DOMAIN corpus :
               rank[t] = IF t < page THEN UpdateRule(prev_rank, t)
                                     ELSE prev_rank[t])
    /\ [][pc = "start" =>
            \A t \in DOMAIN corpus :
               RatIs(prev_rank'[t], 1, NumPages(corpus))]_vars
    /\ [][pc = "for" =>
            prev_rank' = IF pc' = "for" THEN prev_rank ELSE rank]_vars

\* in the middle of a second or later round of a corpus of three pages: the
\* first page holds its new rank, which differs from its previous one
C4_Witness ==
    /\ pc = "for"
    /\ page = 2
    /\ NumPages(corpus) = 3
    /\ \E p \in DOMAIN corpus : corpus[p] = {}
    /\ \E p \in DOMAIN corpus : prev_rank[p] # RDivInt(One, 3)
    /\ rank[1] # prev_rank[1]

\* C5: on a non-empty corpus the rank vector has every page as a key and
\* sums to 1 after the initialization, after every completed round and
\* when it is returned.
C5_RanksSumToOne ==
    (corpus # <<>> /\ pc \in {"while", "done"}) =>
        /\ DOMAIN rank = DOMAIN corpus
        /\ RSum(rank) = One

\* a vector that is not the uniform one is returned for a corpus with a
\* page without links
C5_Witness ==
    /\ pc = "done"
    /\ NumPages(corpus) = 3
    /\ \E p \in DOMAIN corpus : corpus[p] = {}
    /\ \E p \in DOMAIN corpus : rank[p] # RDivInt(One, 3)

\* C6: on a non-empty corpus iterate_pagerank eventually returns.
C6_Terminates ==
    (corpus # <<>>) ~> (pc = "done")

\* the function has returned under damping 1/2 with ranks that needed more
\* than one round: some page moved away from 1/3
C6_Witness ==
    /\ pc = "done"
    /\ NumPages(corpus) = 3
    /\ damping_factor = [n |-> 1, d |-> 2]
    /\ \E p \in DOMAIN corpus : rank[p] # RDivInt(One, 3)
    /\ \A p \in DOMAIN corpus : check[p]

\* C7: called on a corpus with no pages, iterate_pagerank does not return a
\* rank vector.
C7_EmptyCorpusFails ==
    corpus = <<>> => pc # "done"

\* C10: at the end of a round loop becomes False exactly when every page's
\* change from the previous round's vector is strictly below 0.001; the
\* function returns only with loop False, and returns the vector of the
\* round just compared.
C10_ConvergenceAfterFullRound ==
    [][/\ (pc = "for" /\ pc' = "while") =>
            /\ loop
            /\ loop' = ~(\A p \in DOMAIN corpus :
                           RLess(RAbs(RSub(rank[p], prev_rank[p])), Tolerance))
            /\ rank' = rank
       /\ (pc = "while" /\ pc' = "for") => loop
       /\ (pc = "while" /\ pc' = "done") => (~loop /\ rank' = rank)
       /\ (pc = "for" /\ pc' = "for") => (prev_rank' = prev_rank /\ loop' = loop)
      ]_vars

\* a round has just been computed in which a page whose flag was set by an
\* earlier round changed by 0.001 or more
C10_Witness ==
    /\ pc = "for"
    /\ page > NumPages(corpus)
    /\ \E p \in DOMAIN corpus :
         /\ check[p]
         /\ ~RLess(RAbs(RSub(rank[p], prev_rank[p])), Tolerance)


=============================================================================
